---- MODULE Spec2Model ----
(***************************************************************************)
(* A model of zyspotify's authenticated-retrieval pipeline:                *)
(*   - RespotAuth.refresh_token and RespotRequest.authorized_get_request   *)
(*     (src/zspotify/respot.py), specification SpecReq;                    *)
(*   - the paginated listings of RespotRequest, specification SpecPage;    *)
(*   - ZSpotify.download_track / download_album / download_artist /        *)
(*     download_playlist / download_liked_songs                            *)
(*     (src/zyspotify/__main__.py), specification Spec.                    *)
(* Each specification moves its own variables and leaves the others alone. *)
(***************************************************************************)
EXTENDS Naturals, Integers, Sequences, FiniteSets, TLC

VARIABLES
    \* ---- RespotAuth (respot.py:45-53)
    auth_session,            \* self.session: 0 is None, n > 0 the n-th session built
    auth_token,              \* self.token
    auth_token_your_libary,  \* self.token_your_libary
    sessions,                \* how many sessions Session.Builder has created so far
    \* ---- RespotRequest (respot.py:120-125)
    req_token,               \* self.token
    req_token_your_libary,   \* self.token_your_libary
    \* ---- one call of authorized_get_request (respot.py:127-147)
    rq_pc,                   \* "idle", "run" (a recursion level is to execute), "done"
    retry_count,             \* the retry_count argument of the current level
    token_bearer,            \* the token_bearer argument of the current level
    sent,                    \* the requests.get calls of this call, in order
    result,                  \* what the call gave its caller
    calls,                   \* calls of authorized_get_request started so far
    \* ---- one paginated listing of RespotRequest (respot.py:206-280, 335-355, 414-434)
    pg_pc,                   \* "idle", "loop" (in the while True), "done", "raised"
    pg_kind,                 \* which listing runs
    offset,                  \* the local offset
    items,                   \* len() of the list the listing accumulates
    pages,                   \* the page requests issued, in order, with what came back
    \* ---- the download ledger (db_manager) and the music directory
    ledger_songs,            \* track id -> have_song_downloaded
    ledger_albums,           \* album id -> have_album_already_downloaded
    ledger_artists,          \* artist id -> have_artist_already_downloaded
    files,                   \* track id -> the track's output file exists
    not_skip_existing,       \* ZSpotify.not_skip_existing (args.not_skip_existing)
    unfinished,              \* the tracks of the album the last step marked that are not in the ledger
    \* ---- where ZSpotify is (src/zyspotify/__main__.py)
    pc,                      \* "idle", "artist" (loop of 344), "tracks" (loop of 318, 228, 369)
    artist_id,               \* download_artist's argument
    albums_ids,              \* what get_artist_albums returned
    album_idx,               \* the album the loop of 344 is at
    loop_kind,               \* whose track loop runs: "album", "playlist", "liked"
    album_id,                \* download_album's argument
    songs,                   \* what the track listing returned
    song_idx,                \* the song the track loop is at
    tried_albums,            \* albums download_album was invoked for by this download_artist
    tried_songs,             \* tracks download_track was invoked for by this track loop
    ev,                      \* what the last step did
    \* ---- one call of RespotTrackHandler.download_audio (respot.py:523-594)
    da_pc,                   \* "idle", "reading" (in the while of 554), "post" (at 572), "done"
    total_size,              \* stream.input_stream.size
    chunk_size,              \* the local chunk_size
    downloaded,              \* the local downloaded
    failCount,               \* the local failCount
    reads,                   \* the read() calls of this call, in order
    make_dirs,               \* the make_dirs argument
    dir_exists,              \* output_path.parent exists
    encoded,                 \* bytes handed to _convert_audio_format, -1: not invoked
    slept,                   \* time.sleep(self.anti_ban_wait_time) was reached
    failure,                 \* the step that raised: "none", "open", "read", "dir", "encode"
    da_result,               \* what the call gave its caller
    progress,                \* what set_progress_bar was called with, in order
    opens,                   \* the content_feeder().load attempts the last step made, in order
    \* ---- the login loop (ZSpotify.login, __main__.py:87-95; RespotAuth, respot.py:45-118)
    cred_file,               \* self.credentials on disk: 0 no file, n > 0 the n-th file written
    cred_ok,                 \* the service accepts the credential in that file
    force_premium,           \* RespotAuth.force_premium
    account_type,            \* session.get_user_attribute("type") of the user
    quality,                 \* RespotAuth.quality
    lg_pc,                   \* "silent" (at 89), "prompt" (at 90-93), "authenticated", "crashed"
    lg_ev,                   \* what the last login attempt did
    \* ---- one entity-metadata lookup of RespotRequest (respot.py:149-204, 282-303, 357-412, 436-444)
    lk_pc,                   \* "idle", "wait" (its request is under way), "done"
    lk_kind,                 \* which lookup runs
    lk_result,               \* what the lookup gave its caller
    \* ---- one run of the program (main and ZSpotify.start, __main__.py:480-579)
    run_pc,                  \* "start" (at the mode dispatch of 490), "work", "exited"
    run_mode,                \* the mode the arguments select
    work_left,               \* requested items not yet traversed
    exit_kind,               \* how the run ended: "none", "returned", "interrupt", "exception"
    committed,               \* db_manager.commit() of main's handler has run
    closed                   \* db_manager.close_all() of main's handler has run

reqVars == <<auth_session, auth_token, auth_token_your_libary, sessions,
             req_token, req_token_your_libary,
             rq_pc, retry_count, token_bearer, sent, result, calls>>

pageVars == <<pg_pc, pg_kind, offset, items, pages>>

dlVars == <<ledger_songs, ledger_albums, ledger_artists, files, not_skip_existing,
            unfinished,
            pc, artist_id, albums_ids, album_idx, loop_kind, album_id,
            songs, song_idx, tried_albums, tried_songs, ev>>

audioVars == <<da_pc, total_size, chunk_size, downloaded, failCount, reads,
               make_dirs, dir_exists, encoded, slept, failure, da_result,
               progress, opens>>

loginVars == <<cred_file, cred_ok, force_premium, account_type, quality, lg_pc, lg_ev>>

lookupVars == <<lk_pc, lk_kind, lk_result>>

runVars == <<run_pc, run_mode, work_left, exit_kind, committed, closed>>

vars == <<reqVars, pageVars, dlVars, audioVars, loginVars, lookupVars, runVars>>

-----------------------------------------------------------------------------
(* Bounds of the model.                                                    *)

\* calls of authorized_get_request explored in one behaviour
MaxCalls == 2

\* page requests one listing may issue before the model stops following it
MaxPages == 3

\* track ids and album ids of the catalog
NTracks == 2
NAlbums == 2

\* sessions a login loop may build before the model stops following it
MaxSessions == 2

\* items named on the command line (or liked artists) of one run
MaxItems == 3

\* size of the stream whose reads may return any number of bytes
SmallTotal == 2

-----------------------------------------------------------------------------
(* Tokens and sessions.                                                    *)

\* None, the value of RespotAuth.token before any refresh_token
NoToken == [sess |-> 0, scope |-> "None"]

\* session.tokens().get(scope): the token session s mints for a scope
MintToken(s, scope) == [sess |-> s, scope |-> scope]

\* HTTP statuses other than 401 that the server may answer with
Statuses == {200, 404, 429, 503}

\* what requests.get does: a response with status 401, a response with another
\* status, or requests.exceptions.ConnectionError
Response(status) == [kind |-> "response", status |-> status]
NoResult == [kind |-> "none", status |-> 0]
TooManyRetries == [kind |-> "TooManyRetries", status |-> 0]
RefreshError == [kind |-> "RefreshError", status |-> 0]

-----------------------------------------------------------------------------
(* RespotAuth.refresh_token, respot.py:96-106.  The three library calls    *)
(* (Session.Builder().create(), tokens().get(), tokens().get()) may each   *)
(* raise; `failAt` names the first that does ("none": all succeed) and     *)
(* what is assigned before it stays assigned.                              *)

RefreshPoints == {"none", "create", "token", "library"}

\* self.session after refresh_token
refresh_session(failAt) ==
    IF failAt = "create" THEN auth_session ELSE sessions + 1

\* a refresh that hands back the token it had
refresh_auth_token_Stale(failAt) == auth_token

\* self.token after refresh_token
refresh_auth_token(failAt) ==
    IF failAt \in {"create", "token"}
    THEN auth_token
    ELSE MintToken(sessions + 1, "user-read-email")

\* self.token_your_libary after refresh_token
refresh_auth_library(failAt) ==
    IF failAt = "none"
    THEN MintToken(sessions + 1, "user-library-read")
    ELSE auth_token_your_libary

\* the whole of refresh_token on the RespotAuth fields
refresh_token(failAt) ==
    /\ auth_session' = refresh_session(failAt)
    /\ auth_token' = refresh_auth_token(failAt)
    /\ auth_token_your_libary' = refresh_auth_library(failAt)
    /\ sessions' = IF failAt = "create" THEN sessions ELSE sessions + 1

-----------------------------------------------------------------------------
(* RespotRequest.authorized_get_request, respot.py:127-147.  One action    *)
(* per way a recursion level can go.                                       *)

\* an off-by-one of the retry limit: gives up after three requests
RetryLimitExceeded_OffByOne(rc) == rc > 2

\* respot.py:129  if retry_count > 3
RetryLimitExceeded(rc) == rc > 3

\* respot.py:127 and 342-345: the token_bearer argument of a fresh call is
\* None, or self.token_your_libary when get_liked_tracks passes it
InitialBearer(library) ==
    IF library THEN req_token_your_libary ELSE NoToken

\* respot.py:132-133: if token_bearer is None: token_bearer = self.token
\* (the local is reassigned: it is what the request carries and what the
\* recursive calls of 144 and 147 are given)
Bearer(arg) == IF arg = NoToken THEN req_token ELSE arg

\* respot.py:144: the token_bearer the retry after a 401 is called with
RetryBearer(bearer, newToken) == bearer

\* a retry after a connection failure that picks up the stored token
ConnRetryBearer_StoredToken(bearer) == req_token

\* respot.py:147: the token_bearer the retry after a ConnectionError is called with
ConnRetryBearer(bearer) == bearer

\* a caller invokes authorized_get_request(url) or (url, self.token_your_libary)
Call(library) ==
    /\ rq_pc = "idle"
    /\ calls < MaxCalls
    /\ calls' = calls + 1
    /\ rq_pc' = "run"
    /\ retry_count' = 0
    /\ token_bearer' = InitialBearer(library)
    /\ sent' = <<>>
    /\ result' = NoResult
    /\ UNCHANGED <<auth_session, auth_token, auth_token_your_libary, sessions,
                   req_token, req_token_your_libary>>

\* respot.py:129-130
RaiseTooManyRetries ==
    /\ rq_pc = "run"
    /\ RetryLimitExceeded(retry_count)
    /\ rq_pc' = "done"
    /\ result' = TooManyRetries
    /\ UNCHANGED <<auth_session, auth_token, auth_token_your_libary, sessions,
                   req_token, req_token_your_libary,
                   retry_count, token_bearer, sent, calls>>

\* a wrapper that tries again after an error status
GetResponse_RetriesOnError(status) ==
    /\ rq_pc = "run"
    /\ ~RetryLimitExceeded(retry_count)
    /\ sent' = Append(sent, [token |-> Bearer(token_bearer), outcome |-> "response",
                             status |-> status, refresh |-> "no"])
    /\ IF status >= 400
       THEN /\ retry_count' = retry_count + 1
            /\ UNCHANGED <<rq_pc, result>>
       ELSE /\ rq_pc' = "done"
            /\ result' = Response(status)
            /\ UNCHANGED retry_count
    /\ UNCHANGED <<auth_session, auth_token, auth_token_your_libary, sessions,
                   req_token, req_token_your_libary, token_bearer, calls>>

\* respot.py:136-139,145: a response whose status is not 401 is returned
GetResponse(status) ==
    /\ rq_pc = "run"
    /\ ~RetryLimitExceeded(retry_count)
    /\ sent' = Append(sent, [token |-> Bearer(token_bearer), outcome |-> "response",
                             status |-> status, refresh |-> "no"])
    /\ rq_pc' = "done"
    /\ result' = Response(status)
    /\ UNCHANGED <<auth_session, auth_token, auth_token_your_libary, sessions,
                   req_token, req_token_your_libary,
                   retry_count, token_bearer, calls>>

\* respot.py:139-144: a 401, refresh_token, then the recursive call.
\* failAt/connErr: where refresh_token raises and whether what it raises is a
\* requests.exceptions.ConnectionError (caught at 146) or not (propagates).
Get401(failAt, connErr) ==
    /\ rq_pc = "run"
    /\ ~RetryLimitExceeded(retry_count)
    /\ failAt = "none" => ~connErr
    /\ sent' = Append(sent, [token |-> Bearer(token_bearer), outcome |-> "401",
                             status |-> 401,
                             refresh |-> IF failAt = "none" THEN "ok"
                                         ELSE IF connErr THEN "connerr"
                                         ELSE "raised"])
    /\ refresh_token(failAt)
    /\ IF failAt = "none"
       THEN /\ req_token' = refresh_auth_token(failAt)
            /\ req_token_your_libary' = refresh_auth_library(failAt)
            /\ token_bearer' = RetryBearer(Bearer(token_bearer),
                                            refresh_auth_token(failAt))
            /\ retry_count' = retry_count + 1
            /\ UNCHANGED <<rq_pc, result>>
       ELSE IF connErr
       THEN /\ retry_count' = retry_count + 1
            /\ token_bearer' = ConnRetryBearer(Bearer(token_bearer))
            /\ UNCHANGED <<req_token, req_token_your_libary, rq_pc, result>>
       ELSE /\ rq_pc' = "done"
            /\ result' = RefreshError
            /\ UNCHANGED <<req_token, req_token_your_libary, token_bearer,
                           retry_count>>
    /\ UNCHANGED calls

\* respot.py:146-147: requests.get raises ConnectionError
GetConnectionError ==
    /\ rq_pc = "run"
    /\ ~RetryLimitExceeded(retry_count)
    /\ sent' = Append(sent, [token |-> Bearer(token_bearer), outcome |-> "conn",
                             status |-> 0, refresh |-> "no"])
    /\ retry_count' = retry_count + 1
    /\ token_bearer' = ConnRetryBearer(Bearer(token_bearer))
    /\ UNCHANGED <<auth_session, auth_token, auth_token_your_libary, sessions,
                   req_token, req_token_your_libary,
                   rq_pc, result, calls>>

\* the caller has the result (or the exception); the client is idle again
Return ==
    /\ rq_pc = "done"
    /\ rq_pc' = "idle"
    /\ retry_count' = 0
    /\ token_bearer' = NoToken
    /\ sent' = <<>>
    /\ result' = NoResult
    /\ UNCHANGED <<auth_session, auth_token, auth_token_your_libary, sessions,
                   req_token, req_token_your_libary, calls>>

-----------------------------------------------------------------------------
(* The paginated listings of RespotRequest: get_all_user_playlists         *)
(* (respot.py:206-222), get_playlist_songs (224-244), get_album_songs      *)
(* (256-280), get_liked_tracks (335-355), get_show_episodes (414-434).     *)
(* All five run the same loop; a page is what one authorized_get_request   *)
(* returned.  A page is modelled by its number of items and, for playlist  *)
(* pages, by how many of them have "track": null.                          *)

Listings == {"user_playlists", "playlist_songs", "album_songs",
             "liked_tracks", "show_episodes"}

\* respot.py:209, 227, 260, 339, 418: the local `limit`
Limit(kind) == IF kind = "playlist_songs" THEN 100 ELSE 50

\* the sizes of page the server is made to answer with
PageSizes(kind) == {0, 1, Limit(kind) - 1, Limit(kind)}

\* a loop end that waits for an empty page instead of a short one
ShortPage_EmptyOnly(size, limit) == size = 0

\* respot.py:219, 242, 277, 352, 431: if len(resp["items"]) < limit: break
ShortPage(size, limit) == size < limit

\* respot.py:236-240 (get_playlist_songs skips an item whose track is None);
\* 217, 271-275, 347-350, 426-429 (the others keep every item)
Kept(kind, size, nulls) ==
    IF kind = "playlist_songs" THEN size - nulls ELSE size

\* a listing is called
StartListing(kind) ==
    /\ pg_pc = "idle"
    /\ pg_pc' = "loop"
    /\ pg_kind' = kind
    /\ offset' = 0
    /\ items' = 0
    /\ pages' = <<>>

\* one iteration of the while True: the request at `offset` is answered with a
\* page of `size` items
FetchPage(size, nulls) ==
    /\ pg_pc = "loop"
    /\ Len(pages) < MaxPages
    /\ size \in PageSizes(pg_kind)
    /\ nulls <= size
    /\ nulls > 0 => pg_kind = "playlist_songs"
    /\ pages' = Append(pages, [offset |-> offset, size |-> size, nulls |-> nulls])
    /\ offset' = offset + Limit(pg_kind)
    /\ items' = items + Kept(pg_kind, size, nulls)
    /\ pg_pc' = IF ShortPage(size, Limit(pg_kind)) THEN "done" ELSE "loop"
    /\ UNCHANGED pg_kind

\* the page request raises (TooManyRetries of authorized_get_request,
\* respot.py:129-130): no listing catches it
PageRequestRaises ==
    /\ pg_pc = "loop"
    /\ pg_pc' = "raised"
    /\ UNCHANGED <<pg_kind, offset, items, pages>>

\* get_artist_albums, respot.py:305-333: one request at offset 0 with limit
\* 50 and no loop; resp["items"] of that page is returned (333)
get_artist_albums(size, raises) ==
    /\ pg_pc = "idle"
    /\ size \in PageSizes("artist_albums")
    /\ pg_kind' = "artist_albums"
    /\ offset' = 0
    /\ IF raises
       THEN /\ pg_pc' = "raised"
            /\ pages' = <<>>
            /\ items' = 0
       ELSE /\ pg_pc' = "done"
            /\ pages' = <<[offset |-> 0, size |-> size, nulls |-> 0]>>
            /\ items' = size

\* the caller has the list (or the exception)
EndListing ==
    /\ pg_pc \in {"done", "raised"}
    /\ pg_pc' = "idle"
    /\ UNCHANGED <<pg_kind, offset, items, pages>>

-----------------------------------------------------------------------------
(* The download ledger (db_manager of zyspotify/db.py, not among the       *)
(* sources: modelled from its uses in __main__.py and from the             *)
(* specification's DownloadLedger contract) and the catalog.               *)

Tracks == 1..NTracks
Albums == 1..NAlbums
Artists == {"artist"}

\* what a listing returns: the tracks (albums) in catalog order, none twice
Listing(S) ==
    {q \in UNION {[1..n -> S] : n \in 0..Cardinality(S)} :
        \A i, j \in 1..Len(q) : i < j => q[i] < q[j]}

\* db_manager.have_song_downloaded(track_id)
have_song_downloaded(t) == ledger_songs[t]

\* db_manager.have_album_already_downloaded(album_id)
have_album_already_downloaded(a) == ledger_albums[a]

\* db_manager.have_artist_already_downloaded(artist_id)
have_artist_already_downloaded(r) == ledger_artists[r]

\* db_manager.set_song_downloaded(track_id, path, should_commit=True)
set_song_downloaded(t) == [ledger_songs EXCEPT ![t] = TRUE]

\* db_manager.set_album_fully_downloaded(album_id, should_commit=True)
set_album_fully_downloaded(a) == [ledger_albums EXCEPT ![a] = TRUE]

\* db_manager.set_artist_fully_downloaded(artist_id, should_commit=True)
set_artist_fully_downloaded(r) == [ledger_artists EXCEPT ![r] = TRUE]

\* the tracks of a listing that the ledger does not hold as downloaded
NotCompleted(list) ==
    {list[i] : i \in {j \in 1..Len(list) : ~have_song_downloaded(list[j])}}

\* what a step records in ev: the operation and its argument, the branch it
\* took, whether it sent a catalog request (info), opened a stream, had the
\* encoder write the file, wrote the ledger, was left by an exception, and
\* how many children of the enclosing loops that exception left unvisited
Event(op, id, path, info, stream, encode, marked, raised, left) ==
    [op |-> op, id |-> id, path |-> path, info |-> info, stream |-> stream,
     encode |-> encode, marked |-> marked, raised |-> raised, left |-> left]

NoEvent == Event("none", "none", "none", FALSE, FALSE, FALSE, FALSE, FALSE, 0)

-----------------------------------------------------------------------------
(* ZSpotify.download_track, __main__.py:143-212.                           *)
(* Inputs of one call: meta, what get_track_info gave ("none": None, the   *)
(* lookup failed; "unplayable": is_playable false; "ok"); dl, whether      *)
(* Respot.download gave a path ("ok": stream drained, encoded, file        *)
(* written) or "" ("fail"); tag, whether set_audio_tags returned or raised.*)

MetaOutcomes == {"none", "unplayable", "ok"}
DownloadOutcomes == {"ok", "fail"}
TagOutcomes == {"ok", "raise"}

\* download_track without the ledger check of line 144
TrackPath_NoLedgerCheck(done, meta, existing, dl, tag) ==
    IF meta = "none" THEN "no_info"
    ELSE IF meta = "unplayable" THEN "not_playable"
    ELSE IF existing THEN "existing"
    ELSE IF dl = "fail" THEN "download_failed"
    ELSE IF tag = "raise" THEN "tagging_raised"
    ELSE "finished"

\* the branch download_track takes: 144/211 skipped, 147 no_info,
\* 151 not_playable, 174-183 existing, 189 download_failed,
\* 193 tagging_raised (set_audio_tags raises), 206-209 finished
TrackPath(done, meta, existing, dl, tag) ==
    IF done THEN "skipped"
    ELSE IF meta = "none" THEN "no_info"
    ELSE IF meta = "unplayable" THEN "not_playable"
    ELSE IF existing THEN "existing"
    ELSE IF dl = "fail" THEN "download_failed"
    ELSE IF tag = "raise" THEN "tagging_raised"
    ELSE "finished"

\* 145: get_track_info is called on every branch but the skip
FetchesInfo(path) == path # "skipped"

\* 185: Respot.download is called (a stream is opened)
OpensStream(path) == path \in {"download_failed", "tagging_raised", "finished"}

\* Respot.download handed the bytes to the encoder and the file was written
Encodes(path) == path \in {"tagging_raised", "finished"}

\* the ledger left alone after a download that succeeded
MarksSong_ExistingOnly(path) == path = "existing"

\* the ledger written although Respot.download gave ""
MarksSong_AlsoWhenDownloadFailed(path) ==
    path \in {"existing", "download_failed", "finished"}

\* the ledger written for a track that was skipped
MarksSong_AlsoWhenSkipped(path) ==
    path \in {"existing", "finished", "no_info", "not_playable"}

\* 179 and 206: set_song_downloaded is called
MarksSong(path) == path \in {"existing", "finished"}

\* 193: an exception of set_audio_tags leaves download_track
Raises(path) == path = "tagging_raised"

\* 174-178: not_skip_existing and a file of that name exists
ExistingFile(t) == not_skip_existing /\ files[t]

\* the branch the call download_track(t) takes in the current state
PathOf(t, meta, dl, tag) ==
    TrackPath(have_song_downloaded(t), meta, ExistingFile(t), dl, tag)

\* one call download_track(t): its effect on ledger, files and ev; `left` is
\* the number of children its exception, if any, leaves unvisited
download_track(t, meta, dl, tag, left) ==
    LET path == PathOf(t, meta, dl, tag)
    IN  /\ ledger_songs' = IF MarksSong(path) THEN set_song_downloaded(t)
                           ELSE ledger_songs
        /\ files' = IF Encodes(path) THEN [files EXCEPT ![t] = TRUE] ELSE files
        /\ ev' = Event("download_track", t, path, FetchesInfo(path),
                       OpensStream(path), Encodes(path), MarksSong(path),
                       Raises(path), IF Raises(path) THEN left ELSE 0)

\* download_track(track) called by the user of ZSpotify (457, 471, 527)
TrackCall(t, meta, dl, tag) ==
    /\ pc = "idle"
    /\ download_track(t, meta, dl, tag, 0)
    /\ unfinished' = {}
    /\ UNCHANGED <<ledger_albums, ledger_artists, not_skip_existing,
                   pc, artist_id, albums_ids, album_idx, loop_kind, album_id,
                   songs, song_idx, tried_albums, tried_songs>>

-----------------------------------------------------------------------------
(* The loops over children: download_artist (__main__.py:338-353) over     *)
(* albums, download_album (287-336), download_playlist (214-230) and       *)
(* download_liked_songs (362-372) over tracks.  A loop is one action per   *)
(* iteration.  No function of __main__.py between main() and the request   *)
(* catches an exception: one that leaves a call leaves every enclosing     *)
(* loop (main, 573-579, catches KeyboardInterrupt only).                   *)

\* a loop that stops one child early
LoopDone_OneEarly(idx, list) == idx >= Len(list)

\* 318, 344, 228, 369: the for loop has visited every element
LoopDone(idx, list) == idx > Len(list)

\* the locals of download_artist are gone
NoArtistFrame ==
    /\ artist_id' = "none"
    /\ albums_ids' = <<>>
    /\ album_idx' = 1
    /\ tried_albums' = {}

\* the locals of a track loop are gone
NoTrackFrame ==
    /\ loop_kind' = "none"
    /\ album_id' = 0
    /\ songs' = <<>>
    /\ song_idx' = 1
    /\ tried_songs' = {}

\* an exception reaches main(): every frame is gone
Abort ==
    /\ pc' = "idle"
    /\ NoArtistFrame
    /\ NoTrackFrame

\* the elements of `list` after position idx
Remaining(idx, list) == IF idx > Len(list) THEN 0 ELSE Len(list) - idx

\* what get_album_info gives download_album: a record, a falsy value, or the
\* RuntimeError of authorized_get_request (respot.py:282-303 catches nothing)
AlbumInfoOutcomes == {"ok", "none", "raise"}

\* download_album without the ledger check of line 290
AlbumPath_NoLedgerCheck(done, info, listRaises, q) ==
    IF info = "raise" THEN "info_raised"
    ELSE IF info = "none" THEN "not_found"
    ELSE IF listRaises THEN "listing_raised"
    ELSE IF q = <<>> THEN "empty"
    ELSE "loop"

\* the branch download_album takes up to its loop: 290/334 skipped,
\* 291 info_raised, 292-294 not_found, 296 listing_raised, 298-300 empty, 318 loop
AlbumPath(done, info, listRaises, q) ==
    IF done THEN "skipped"
    ELSE IF info = "raise" THEN "info_raised"
    ELSE IF info = "none" THEN "not_found"
    ELSE IF listRaises THEN "listing_raised"
    ELSE IF q = <<>> THEN "empty"
    ELSE "loop"

\* the branch download_artist takes up to its loop: 339/352 skipped,
\* 340 listing_raised, 341-343 empty, 344 loop
ArtistPath(done, listRaises, q) ==
    IF done THEN "skipped"
    ELSE IF listRaises THEN "listing_raised"
    ELSE IF q = <<>> THEN "empty"
    ELSE "loop"

\* the branch download_playlist takes up to its loop: 215 info_raised,
\* 219 listing_raised, 220-222 empty, 228 loop
PlaylistPath(infoRaises, listRaises, q) ==
    IF infoRaises THEN "info_raised"
    ELSE IF listRaises THEN "listing_raised"
    ELSE IF q = <<>> THEN "empty"
    ELSE "loop"

\* the branch download_liked_songs takes up to its loop: 363 listing_raised,
\* 364-366 empty, 369 loop
LikedPath(listRaises, q) ==
    IF listRaises THEN "listing_raised"
    ELSE IF q = <<>> THEN "empty"
    ELSE "loop"

PathRaised(path) == path \in {"info_raised", "listing_raised"}

\* download_artist(r) up to its loop, 338-343
ArtistCall(r, listRaises, q) ==
    LET path == ArtistPath(have_artist_already_downloaded(r), listRaises, q)
    IN  /\ pc = "idle"
        /\ ev' = Event("download_artist", r, path, path # "skipped", FALSE, FALSE,
                       FALSE, PathRaised(path), 0)
        /\ IF path = "loop"
           THEN /\ pc' = "artist"
                /\ artist_id' = r
                /\ albums_ids' = q
                /\ album_idx' = 1
                /\ tried_albums' = {}
                /\ NoTrackFrame
           ELSE Abort
        /\ unfinished' = {}
        /\ UNCHANGED <<ledger_songs, ledger_albums, ledger_artists, files,
                       not_skip_existing>>

\* one iteration of the loop of download_artist, 344-347: download_album for
\* the next album, up to the album's own loop (287-316)
ArtistAlbum(info, listRaises, q) ==
    LET a == albums_ids[album_idx]
        path == AlbumPath(have_album_already_downloaded(a), info, listRaises, q)
    IN  /\ pc = "artist"
        /\ ~LoopDone(album_idx, albums_ids)
        /\ ev' = Event("download_album", a, path, path # "skipped", FALSE, FALSE,
                       FALSE, PathRaised(path),
                       IF PathRaised(path) THEN Remaining(album_idx, albums_ids)
                       ELSE 0)
        /\ IF PathRaised(path)
           THEN Abort
           ELSE IF path = "loop"
           THEN /\ pc' = "tracks"
                /\ loop_kind' = "album"
                /\ album_id' = a
                /\ songs' = q
                /\ song_idx' = 1
                /\ tried_songs' = {}
                /\ tried_albums' = tried_albums \cup {a}
                /\ UNCHANGED <<artist_id, albums_ids, album_idx>>
           ELSE \* download_album returned False: the next album
                /\ album_idx' = album_idx + 1
                /\ tried_albums' = tried_albums \cup {a}
                /\ NoTrackFrame
                /\ UNCHANGED <<pc, artist_id, albums_ids>>
        /\ unfinished' = {}
        /\ UNCHANGED <<ledger_songs, ledger_albums, ledger_artists, files,
                       not_skip_existing>>

\* one iteration of a track loop (329, 229, 370): download_track for the next
\* song
LoopTrack(meta, dl, tag) ==
    LET t == songs[song_idx]
        path == PathOf(t, meta, dl, tag)
    IN  /\ pc = "tracks"
        /\ ~LoopDone(song_idx, songs)
        /\ download_track(t, meta, dl, tag,
                          Remaining(song_idx, songs)
                          + (IF loop_kind = "album"
                             THEN Remaining(album_idx, albums_ids) ELSE 0))
        /\ IF Raises(path)
           THEN Abort
           ELSE /\ song_idx' = song_idx + 1
                /\ tried_songs' = tried_songs \cup {t}
                /\ UNCHANGED <<pc, artist_id, albums_ids, album_idx, tried_albums,
                               loop_kind, album_id, songs>>
        /\ unfinished' = {}
        /\ UNCHANGED <<ledger_albums, ledger_artists, not_skip_existing>>

\* the end of download_album, 331-336: the album is marked, True is returned
\* and download_artist goes on with the next album (346-347)
AlbumEnd ==
    /\ pc = "tracks"
    /\ loop_kind = "album"
    /\ LoopDone(song_idx, songs)
    /\ ledger_albums' = set_album_fully_downloaded(album_id)
    /\ unfinished' = NotCompleted(songs)
    /\ ev' = Event("album_end", album_id, "marked", FALSE, FALSE, FALSE, TRUE, FALSE, 0)
    /\ pc' = "artist"
    /\ album_idx' = album_idx + 1
    /\ NoTrackFrame
    /\ UNCHANGED <<ledger_songs, ledger_artists, files, not_skip_existing,
                   artist_id, albums_ids, tried_albums>>

\* the end of download_artist, 349-353
ArtistEnd ==
    /\ pc = "artist"
    /\ LoopDone(album_idx, albums_ids)
    /\ ledger_artists' = set_artist_fully_downloaded(artist_id)
    /\ ev' = Event("artist_end", artist_id, "marked", FALSE, FALSE, FALSE, TRUE, FALSE, 0)
    /\ Abort
    /\ unfinished' = {}
    /\ UNCHANGED <<ledger_songs, ledger_albums, files, not_skip_existing>>

\* download_playlist (214-228) or download_liked_songs (362-369) up to the loop
BatchCall(kind, infoRaises, listRaises, q) ==
    LET path == IF kind = "playlist" THEN PlaylistPath(infoRaises, listRaises, q)
                ELSE LikedPath(listRaises, q)
    IN  /\ pc = "idle"
        /\ kind = "liked" => ~infoRaises
        /\ ev' = Event(IF kind = "playlist" THEN "download_playlist"
                       ELSE "download_liked_songs",
                       kind, path, TRUE, FALSE, FALSE, FALSE, PathRaised(path), 0)
        /\ IF path = "loop"
           THEN /\ pc' = "tracks"
                /\ loop_kind' = kind
                /\ album_id' = 0
                /\ songs' = q
                /\ song_idx' = 1
                /\ tried_songs' = {}
                /\ NoArtistFrame
           ELSE Abort
        /\ unfinished' = {}
        /\ UNCHANGED <<ledger_songs, ledger_albums, ledger_artists, files,
                       not_skip_existing>>

\* the end of download_playlist (230) or download_liked_songs (371-372)
BatchEnd ==
    /\ pc = "tracks"
    /\ loop_kind \in {"playlist", "liked"}
    /\ LoopDone(song_idx, songs)
    /\ ev' = Event("batch_end", loop_kind, "returned", FALSE, FALSE, FALSE, FALSE, FALSE, 0)
    /\ Abort
    /\ unfinished' = {}
    /\ UNCHANGED <<ledger_songs, ledger_albums, ledger_artists, files,
                   not_skip_existing>>

-----------------------------------------------------------------------------
(* RespotTrackHandler.download_audio, respot.py:523-594: open the stream,  *)
(* drain it in chunks, resolve the directory, encode, sleep.  The stream,  *)
(* the file system and the encoder (_convert_audio_format, 596-603: pydub)  *)
(* are inputs: the stream holds total_size bytes and a read gives nothing  *)
(* or all it was asked for and the stream still has.                       *)

\* respot.py:507
CHUNK_SIZE == 50000

\* respot.py:508
RETRY_DOWNLOAD == 30

\* sizes of stream: empty, a few bytes, smaller than a chunk, a chunk, two
\* chunks and a rest
Totals == {0, SmallTotal, 20000, 50000, 120000}

\* 528-540: load as a track succeeds; it raises StatusCodeException and the
\* load as an episode succeeds; or an exception reaches the except of 590
OpenOutcomes == {"ok", "episode", "raise"}

\* 529-532: TrackId.from_base62 and load: it succeeds, it raises
\* ApiClient.StatusCodeException, or it raises something else
TrackOpenOutcomes == {"ok", "status_code", "other"}

\* 535-538: EpisodeId.from_base62 and load
EpisodeOpenOutcomes == {"ok", "raise"}

\* a fallback that is taken after any error of the track load
TriesEpisode_AnyError(track) == track # "ok"

\* 533-540: except Exception as e: isinstance(e, ApiClient.StatusCodeException)
TriesEpisode(track) == track = "status_code"

\* the load attempts of one call
OpenAttempts(track, episode) ==
    IF TriesEpisode(track)
    THEN <<[as |-> "track", outcome |-> track],
           [as |-> "episode", outcome |-> episode]>>
    ELSE <<[as |-> "track", outcome |-> track]>>

\* how the opening of 528-540 ends
OpenOutcome(track, episode) ==
    LET last == OpenAttempts(track, episode)[Len(OpenAttempts(track, episode))]
    IN  IF last.outcome # "ok" THEN "raise"
        ELSE IF last.as = "episode" THEN "episode"
        ELSE "ok"

\* 548, 561: the dict given to set_progress_bar (track_id is the argument,
\* the same in every snapshot of a call)
Snapshot(total, d) == [kind |-> "snapshot", total |-> total, downloaded |-> d]

\* 572: set_progress_bar(False)
NoTransfer == [kind |-> "none", total |-> 0, downloaded |-> 0]

\* a snapshot taken before the read is counted
SnapshotValue_BeforeRead(d, got) == d

\* 557 then 561: downloaded += len(data) comes before the snapshot
SnapshotValue(d, got) == d + got

\* download_audio has not returned
NotReturned == "none"

\* a result that lets an encoder error out of download_audio
Result_EncodeErrorPropagates(f) ==
    IF f = "none" THEN "True" ELSE IF f = "encode" THEN "raised" ELSE "False"

\* 589 return True; 590-594 except Exception: return False
Result(f) == IF f = "none" THEN "True" ELSE "False"

\* a loop that is left as soon as downloaded reaches total_size
LoopContinues_UntilTotal(d, t) == d < t

\* 554: while downloaded <= total_size
LoopContinues(d, t) == d <= t

\* 565-566: if (total_size - downloaded) < chunk_size: chunk_size = total_size - downloaded
NextChunk(c, t, d) == IF t - d < c THEN t - d ELSE c

\* a count of empty reads that never moves
NextFailCount_NeverCounts(fc, got) == fc

\* 567-568: if len(data) == 0: failCount += 1 (nothing sets it back)
NextFailCount(fc, got) == IF got = 0 THEN fc + 1 ELSE fc

\* a limit that lets one more empty read through
Abandon_OneMore(fc) == fc > RETRY_DOWNLOAD + 1

\* 569: if failCount > self.RETRY_DOWNLOAD: break
Abandon(fc) == fc > RETRY_DOWNLOAD

\* what a stream of t bytes, d of them read, has for a read(c)
Available(c, t, d) ==
    IF c <= 0 \/ t - d <= 0 THEN 0 ELSE IF c < t - d THEN c ELSE t - d

\* len(data) of one read(c)
ReadResults(c, t, d) ==
    IF t <= SmallTotal THEN 0..Available(c, t, d) ELSE {0, Available(c, t, d)}

\* a directory that is taken to be there without a look
DirOutcome_NoExistsCheck(mk, exists, mkdirRaises) ==
    IF mk THEN (IF mkdirRaises THEN "mkdir_raised" ELSE "created")
    ELSE "present"

\* 575-580: mkdir(parents=True, exist_ok=True) when make_dirs, else
\* FileNotFoundError when the directory does not exist
DirOutcome(mk, exists, mkdirRaises) ==
    IF mk THEN (IF mkdirRaises THEN "mkdir_raised" ELSE "created")
    ELSE IF exists THEN "present"
    ELSE "missing"

\* 523-554: the call, up to the first test of the while
DownloadAudioCall(total, mk, track, episode) ==
  LET open == OpenOutcome(track, episode) IN
    /\ da_pc = "idle"
    /\ ~TriesEpisode(track) => episode = "ok"
    /\ opens' = OpenAttempts(track, episode)
    /\ progress' = IF open = "raise" THEN <<>> ELSE <<Snapshot(total, 0)>>
    /\ make_dirs' = mk
    /\ reads' = <<>>
    /\ encoded' = -1
    /\ slept' = FALSE
    /\ downloaded' = 0
    /\ failCount' = 0
    /\ IF open = "raise"
       THEN /\ da_pc' = "done"
            /\ failure' = "open"
            /\ da_result' = Result("open")
            /\ total_size' = 0
            /\ chunk_size' = 0
       ELSE /\ da_pc' = IF LoopContinues(0, total) THEN "reading" ELSE "post"
            /\ failure' = "none"
            /\ da_result' = NotReturned
            /\ total_size' = total
            /\ chunk_size' = CHUNK_SIZE
    /\ UNCHANGED dir_exists

\* 555-570: one iteration of the while; the read returns `got` bytes
ReadChunk(got) ==
    /\ da_pc = "reading"
    /\ got \in ReadResults(chunk_size, total_size, downloaded)
    /\ reads' = Append(reads, [req |-> chunk_size, got |-> got, at |-> downloaded])
    /\ downloaded' = downloaded + got
    /\ chunk_size' = NextChunk(chunk_size, total_size, downloaded + got)
    /\ failCount' = NextFailCount(failCount, got)
    /\ da_pc' = IF \/ Abandon(NextFailCount(failCount, got))
                   \/ ~LoopContinues(downloaded + got, total_size)
                THEN "post" ELSE "reading"
    /\ progress' = Append(progress,
                          Snapshot(total_size, SnapshotValue(downloaded, got)))
    /\ opens' = <<>>
    /\ UNCHANGED <<total_size, make_dirs, dir_exists, encoded, slept, failure,
                   da_result>>

\* 555: the read raises; the except of 590 returns False
ReadRaises ==
    /\ da_pc = "reading"
    /\ reads' = Append(reads, [req |-> chunk_size, got |-> -1, at |-> downloaded])
    /\ da_pc' = "done"
    /\ failure' = "read"
    /\ da_result' = Result("read")
    /\ opens' = <<>>
    /\ UNCHANGED <<total_size, chunk_size, downloaded, failCount,
                   make_dirs, dir_exists, encoded, slept, progress>>

\* 584 and 596-603: AudioSegment.from_file(BytesIO(b"".join(segments))) decodes
\* the buffer and export() writes the file.  The decoder has nothing to decode
\* in an empty buffer and raises; any other buffer, whole or cut short, it
\* may decode or reject.  The set says whether _convert_audio_format raises.
EncoderRaises(bytes) == IF bytes = 0 THEN {TRUE} ELSE {TRUE, FALSE}

\* the step of 572-589 that raises, if any
FinishFailure(dir, encRaises) ==
    IF dir \in {"missing", "mkdir_raised"} THEN "dir"
    ELSE IF encRaises THEN "encode"
    ELSE "none"

\* 572-594: after the loop: the directory, the encoder, the sleep, the result
Finish(mkdirRaises, encRaises) ==
    LET dir == DirOutcome(make_dirs, dir_exists, mkdirRaises)
        f == FinishFailure(dir, encRaises)
    IN  /\ da_pc = "post"
        /\ mkdirRaises => make_dirs
        /\ encRaises \in EncoderRaises(downloaded)
        /\ dir_exists' = (dir_exists \/ dir = "created")
        /\ encoded' = IF f = "dir" THEN -1 ELSE downloaded
        /\ slept' = (f = "none")
        /\ failure' = f
        /\ da_result' = Result(f)
        /\ da_pc' = "done"
        /\ progress' = Append(progress, NoTransfer)
        /\ opens' = <<>>
        /\ UNCHANGED <<total_size, chunk_size, downloaded, failCount, reads,
                       make_dirs>>

\* the caller has the result; the locals are gone
AudioReturn ==
    /\ da_pc = "done"
    /\ da_pc' = "idle"
    /\ total_size' = 0
    /\ chunk_size' = 0
    /\ downloaded' = 0
    /\ failCount' = 0
    /\ reads' = <<>>
    /\ make_dirs' = FALSE
    /\ encoded' = -1
    /\ slept' = FALSE
    /\ failure' = "none"
    /\ da_result' = NotReturned
    /\ progress' = <<>>
    /\ opens' = <<>>
    /\ UNCHANGED dir_exists

-----------------------------------------------------------------------------
(* The login loop: ZSpotify.login (__main__.py:87-95) calls                *)
(* Respot.is_authenticated (respot.py:32-36), which calls RespotAuth.login *)
(* (55-64) and, on True, builds the RespotRequest (122-125).  The service  *)
(* and the user are inputs: whether the stored credential is accepted      *)
(* (cred_ok), where a session or token call fails, what kind of exception  *)
(* that is, and whether the user types a valid user name and password.     *)

AccountTypes == {"premium", "free"}

\* the exception a failing library call raises: the RuntimeError the handlers
\* of 82 and 93 expect, or another one
ExceptionKinds == {"RuntimeError", "other"}

\* a check that looks at the account type only
QualityFor_IgnoresForce(type, force) ==
    IF type = "premium" THEN "VERY_HIGH" ELSE "HIGH"

\* respot.py:113-118 (_check_premium): AudioQuality.VERY_HIGH or AudioQuality.HIGH
QualityFor(type, force) ==
    IF type = "premium" \/ force THEN "VERY_HIGH" ELSE "HIGH"

\* a login that takes the user name and password whenever they are given
LoginPath_PrefersUserPass(hasFile, hasUserPass) ==
    IF hasUserPass THEN "user_pass"
    ELSE IF hasFile THEN "stored"
    ELSE "none"

\* respot.py:59-64: the stored file first, then user name and password
LoginPath(hasFile, hasUserPass) ==
    IF hasFile THEN "stored"
    ELSE IF hasUserPass THEN "user_pass"
    ELSE "none"

\* 77-83 and 86-94: True; False on RuntimeError; any other exception leaves login
LoginResult(failAt, exc) ==
    IF failAt = "none" THEN "True"
    ELSE IF exc = "RuntimeError" THEN "False"
    ELSE "raised"

\* where the calls of one login attempt can fail
LoginFailPoints(path, valid) ==
    IF path = "stored" THEN (IF cred_ok THEN RefreshPoints ELSE {"create"})
    ELSE IF path = "user_pass" THEN (IF valid THEN {"none", "create"} ELSE {"create"})
    ELSE {"none"}

\* 76-83: _authenticate_with_stored_credentials
authenticate_with_stored_credentials(failAt) ==
    /\ refresh_token(failAt)
    /\ quality' = IF failAt = "none" THEN QualityFor(account_type, force_premium)
                  ELSE quality
    /\ UNCHANGED <<cred_file, cred_ok>>

\* 85-94: _authenticate_with_user_pass; 67-68: the new credentials.json is
\* renamed to self.credentials
authenticate_with_user_pass(failAt) ==
    IF failAt = "none"
    THEN /\ auth_session' = sessions + 1
         /\ sessions' = sessions + 1
         /\ cred_file' = cred_file + 1
         /\ cred_ok' = TRUE
         /\ quality' = QualityFor(account_type, force_premium)
         /\ UNCHANGED <<auth_token, auth_token_your_libary>>
    ELSE UNCHANGED <<auth_session, sessions, cred_file, cred_ok, quality,
                     auth_token, auth_token_your_libary>>

\* Respot.is_authenticated(username, password), 32-36, with RespotAuth.login
is_authenticated(userpass, valid, failAt, exc) ==
    LET path == LoginPath(cred_file > 0, userpass)
        res == IF path = "none" THEN "False" ELSE LoginResult(failAt, exc)
    IN  /\ failAt \in LoginFailPoints(path, valid)
        /\ failAt = "none" => exc = "RuntimeError"
        /\ (failAt # "create" /\ path # "none") => sessions < MaxSessions
        /\ IF path = "stored" THEN authenticate_with_stored_credentials(failAt)
           ELSE IF path = "user_pass" THEN authenticate_with_user_pass(failAt)
           ELSE UNCHANGED <<auth_session, sessions, cred_file, cred_ok, quality,
                            auth_token, auth_token_your_libary>>
        /\ IF res = "True"
           THEN /\ req_token' = auth_token'
                /\ req_token_your_libary' = auth_token_your_libary'
           ELSE UNCHANGED <<req_token, req_token_your_libary>>
        /\ lg_ev' = [path |-> path, result |-> res, userpass |-> userpass,
                     valid |-> userpass /\ valid]
        /\ UNCHANGED <<force_premium, account_type,
                       rq_pc, retry_count, token_bearer, sent, result, calls>>

\* __main__.py:89: while not self.respot.is_authenticated()
SilentLogin(failAt, exc) ==
    /\ lg_pc = "silent"
    /\ is_authenticated(FALSE, FALSE, failAt, exc)
    /\ lg_pc' = IF lg_ev'.result = "True" THEN "authenticated"
                ELSE IF lg_ev'.result = "False" THEN "prompt"
                ELSE "crashed"

\* __main__.py:90-94: the user is asked, is_authenticated(username, password)
PromptLogin(userpass, valid, failAt, exc) ==
    /\ lg_pc = "prompt"
    /\ valid => userpass
    /\ is_authenticated(userpass, valid, failAt, exc)
    /\ lg_pc' = IF lg_ev'.result = "True" THEN "authenticated"
                ELSE IF lg_ev'.result = "False" THEN "silent"
                ELSE "crashed"

\* the program is started again: a new RespotAuth (45-53), the files stay
Restart ==
    /\ lg_pc \in {"authenticated", "crashed"}
    /\ rq_pc = "idle"
    /\ lg_pc' = "silent"
    /\ auth_session' = 0
    /\ auth_token' = NoToken
    /\ auth_token_your_libary' = NoToken
    /\ req_token' = NoToken
    /\ req_token_your_libary' = NoToken
    /\ quality' = "None"
    /\ lg_ev' = [path |-> "none", result |-> "none", userpass |-> FALSE,
                 valid |-> FALSE]
    /\ UNCHANGED <<sessions, cred_file, cred_ok, force_premium, account_type,
                   rq_pc, retry_count, token_bearer, sent, result, calls>>

\* a login has succeeded: a premium account with its stored credential
LoggedIn ==
    /\ cred_file = 1
    /\ cred_ok = TRUE
    /\ force_premium = FALSE
    /\ account_type = "premium"
    /\ quality = QualityFor("premium", FALSE)
    /\ lg_pc = "authenticated"
    /\ lg_ev = [path |-> "stored", result |-> "True", userpass |-> FALSE,
                valid |-> FALSE]

-----------------------------------------------------------------------------
(* The entity-metadata lookups of RespotRequest: get_track_info            *)
(* (respot.py:149-204), get_album_info (282-303), get_artist_info          *)
(* (357-375), get_episode_info (377-412), get_show_info (436-444).  Each   *)
(* makes one call of authorized_get_request and shapes the answer; the     *)
(* answer's shape is an input.                                             *)

Lookups == {"track", "episode", "album", "artist", "show"}

\* what the body of the answer is like: the entity, an empty (falsy) document,
\* or one that lacks a key the shaping code reads
Shapes == {"entity", "empty", "malformed"}

\* the lookups whose body is inside try ... except Exception: 151/197 and 360/372
CatchesErrors(kind) == kind \in {"track", "artist"}

\* the shaping code raises on this answer (a missing key, a None subscripted);
\* get_episode_info tests `if not info` first (383-384)
ShapingRaises(kind, shape) ==
    \/ shape = "malformed"
    \/ shape = "empty" /\ kind # "episode"

\* what a lookup gives its caller, from what authorized_get_request gave it
LookupResult(kind, res, shape) ==
    IF res.kind # "response" \/ ShapingRaises(kind, shape)
    THEN IF CatchesErrors(kind) THEN "not_found" ELSE "raised"
    ELSE IF shape = "empty" THEN "not_found" ELSE "info"

\* the lookup starts and calls authorized_get_request(url)
LookupCall(kind) ==
    /\ lk_pc = "idle"
    /\ Call(FALSE)
    /\ lk_pc' = "wait"
    /\ lk_kind' = kind
    /\ lk_result' = "none"

\* authorized_get_request has returned or raised; the lookup shapes and returns
LookupShape(shape) ==
    /\ lk_pc = "wait"
    /\ rq_pc = "done"
    /\ lk_result' = LookupResult(lk_kind, result, shape)
    /\ lk_pc' = "done"
    /\ UNCHANGED lk_kind
    /\ UNCHANGED reqVars

\* the caller goes on
LookupReturn ==
    /\ lk_pc = "done"
    /\ Return
    /\ lk_pc' = "idle"
    /\ UNCHANGED <<lk_kind, lk_result>>

\* no lookup under way
LookupIdle ==
    /\ lk_pc = "idle"
    /\ lk_kind = "none"
    /\ lk_result = "none"

-----------------------------------------------------------------------------
(* One run of the program: main (__main__.py:569-579) calls ZSpotify.start *)
(* (480-566), which after the login dispatches on the arguments.  What an  *)
(* item of the requested work does (it completes, or an exception leaves   *)
(* it) and when the user interrupts are inputs.                            *)

Modes == {"all_playlists", "select_playlists", "liked_songs",
          "all_liked_all_artists", "playlist", "album", "artist", "track",
          "episode", "full_show", "search", "bulk_download", "interactive"}

\* the branches of start that do not begin with raise NotImplementedError()
ImplementedModes == {"all_liked_all_artists", "artist"}

\* what one item (one download_artist of 360 or 520) does: nothing in
\* __main__.py catches what it raises
ItemOutcomes == {"completes", "raises"}

\* __main__.py:490-566: the dispatch on the arguments
Dispatch ==
    /\ run_pc = "start"
    /\ IF run_mode \in ImplementedModes
       THEN /\ run_pc' = "work"
            /\ exit_kind' = "none"
       ELSE /\ run_pc' = "exited"
            /\ exit_kind' = "exception"
    /\ UNCHANGED <<run_mode, work_left, committed, closed>>

\* 359-360, 515-520: one iteration of the loop over the requested items
WorkItem(outcome) ==
    /\ run_pc = "work"
    /\ work_left > 0
    /\ IF outcome = "completes"
       THEN /\ work_left' = work_left - 1
            /\ UNCHANGED <<run_pc, exit_kind>>
       ELSE /\ run_pc' = "exited"
            /\ exit_kind' = "exception"
            /\ UNCHANGED work_left
    /\ UNCHANGED <<run_mode, committed, closed>>

\* start returns to main, main returns
RunReturns ==
    /\ run_pc = "work"
    /\ work_left = 0
    /\ run_pc' = "exited"
    /\ exit_kind' = "returned"
    /\ UNCHANGED <<run_mode, work_left, committed, closed>>

\* 575-579: except KeyboardInterrupt: commit, close_all, sys.exit(0)
Interrupt ==
    /\ run_pc \in {"start", "work"}
    /\ run_pc' = "exited"
    /\ exit_kind' = "interrupt"
    /\ committed' = TRUE
    /\ closed' = TRUE
    /\ UNCHANGED <<run_mode, work_left>>

\* the run is past the dispatch and in an artist download
RunInProgress ==
    /\ run_pc = "work"
    /\ run_mode = "artist"
    /\ work_left = 1
    /\ exit_kind = "none"
    /\ committed = FALSE
    /\ closed = FALSE

\* the run is in start, before the dispatch
RunStarting ==
    /\ run_pc = "start"
    /\ run_mode = "artist"
    /\ work_left = 1
    /\ exit_kind = "none"
    /\ committed = FALSE
    /\ closed = FALSE

-----------------------------------------------------------------------------
(* The specifications.                                                     *)

\* no listing runs
InitPageIdle ==
    /\ pg_pc = "idle"
    /\ pg_kind = "none"
    /\ offset = 0
    /\ items = 0
    /\ pages = <<>>

\* Respot.is_authenticated, respot.py:32-36 with RespotAuth.login 55-64 and
\* RespotRequest.__init__ 122-125: after a login with stored credentials the
\* tokens are those of refresh_token; after a login with user and password no
\* refresh_token has run and both are None.
InitReq ==
    /\ auth_session = 1
    /\ sessions = 1
    /\ \E stored \in BOOLEAN :
         /\ auth_token = IF stored THEN MintToken(1, "user-read-email") ELSE NoToken
         /\ auth_token_your_libary =
                IF stored THEN MintToken(1, "user-library-read") ELSE NoToken
    /\ req_token = auth_token
    /\ req_token_your_libary = auth_token_your_libary
    /\ rq_pc = "idle"
    /\ retry_count = 0
    /\ token_bearer = NoToken
    /\ sent = <<>>
    /\ result = NoResult
    /\ calls = 0

\* ZSpotify after __init__ and login: nothing in the ledger, any files in the
\* music directory, no operation running
InitDownloads ==
    /\ ledger_songs = [t \in Tracks |-> FALSE]
    /\ ledger_albums = [a \in Albums |-> FALSE]
    /\ ledger_artists = [r \in Artists |-> FALSE]
    /\ files \in [Tracks -> BOOLEAN]
    /\ not_skip_existing \in BOOLEAN
    /\ unfinished = {}
    /\ pc = "idle"
    /\ artist_id = "none"
    /\ albums_ids = <<>>
    /\ album_idx = 1
    /\ tried_albums = {}
    /\ loop_kind = "none"
    /\ album_id = 0
    /\ songs = <<>>
    /\ song_idx = 1
    /\ tried_songs = {}
    /\ ev = NoEvent

\* the session of a login with stored credentials, no request running
SessionAtRest ==
    /\ InitReq
    /\ auth_token = MintToken(1, "user-read-email")

\* no download running, nothing downloaded yet
DownloadsAtRest ==
    /\ InitDownloads
    /\ files = [t \in Tracks |-> FALSE]
    /\ not_skip_existing = FALSE

\* no download_audio running; the destination directory may exist or not
InitAudio ==
    /\ da_pc = "idle"
    /\ total_size = 0
    /\ chunk_size = 0
    /\ downloaded = 0
    /\ failCount = 0
    /\ reads = <<>>
    /\ make_dirs = FALSE
    /\ dir_exists \in BOOLEAN
    /\ encoded = -1
    /\ slept = FALSE
    /\ failure = "none"
    /\ da_result = NotReturned
    /\ progress = <<>>
    /\ opens = <<>>

\* no download_audio running, the destination directory not there
AudioAtRest ==
    /\ InitAudio
    /\ dir_exists = FALSE

\* the download operations, on a logged-in session
Init == SessionAtRest /\ InitPageIdle /\ InitDownloads /\ AudioAtRest /\ LoggedIn /\ LookupIdle /\ RunInProgress

\* the requests and listings of a logged-in session, before any download
InitSession == InitReq /\ InitPageIdle /\ DownloadsAtRest /\ AudioAtRest /\ LoggedIn /\ LookupIdle /\ RunInProgress

NextReq ==
    \/ \E library \in BOOLEAN : Call(library) /\ UNCHANGED <<pageVars, dlVars, audioVars, loginVars, lookupVars, runVars>>
    \/ RaiseTooManyRetries /\ UNCHANGED <<pageVars, dlVars, audioVars, loginVars, lookupVars, runVars>>
    \/ \E status \in Statuses : GetResponse(status) /\ UNCHANGED <<pageVars, dlVars, audioVars, loginVars, lookupVars, runVars>>
    \/ \E failAt \in RefreshPoints, connErr \in BOOLEAN :
          Get401(failAt, connErr) /\ UNCHANGED <<pageVars, dlVars, audioVars, loginVars, lookupVars, runVars>>
    \/ GetConnectionError /\ UNCHANGED <<pageVars, dlVars, audioVars, loginVars, lookupVars, runVars>>
    \/ Return /\ UNCHANGED <<pageVars, dlVars, audioVars, loginVars, lookupVars, runVars>>

SpecReq == InitSession /\ [][NextReq]_vars

NextPage ==
    \/ \E kind \in Listings : StartListing(kind) /\ UNCHANGED <<reqVars, dlVars, audioVars, loginVars, lookupVars, runVars>>
    \/ \E size \in 0..100, nulls \in 0..1 :
          FetchPage(size, nulls) /\ UNCHANGED <<reqVars, dlVars, audioVars, loginVars, lookupVars, runVars>>
    \/ PageRequestRaises /\ UNCHANGED <<reqVars, dlVars, audioVars, loginVars, lookupVars, runVars>>
    \/ \E size \in 0..50, raises \in BOOLEAN :
          get_artist_albums(size, raises) /\ UNCHANGED <<reqVars, dlVars, audioVars, loginVars, lookupVars, runVars>>
    \/ EndListing /\ UNCHANGED <<reqVars, dlVars, audioVars, loginVars, lookupVars, runVars>>

SpecPage == InitSession /\ [][NextPage]_vars

\* a logged-in session with no request, listing or download under way
InitAudioSession ==
    SessionAtRest /\ InitPageIdle /\ DownloadsAtRest /\ InitAudio /\ LoggedIn /\ LookupIdle /\ RunInProgress

NextAudio ==
    \/ \E total \in Totals, mk \in BOOLEAN, track \in TrackOpenOutcomes,
          episode \in EpisodeOpenOutcomes :
          DownloadAudioCall(total, mk, track, episode) /\ UNCHANGED <<reqVars, pageVars, dlVars, loginVars, lookupVars, runVars>>
    \/ \E got \in ReadResults(chunk_size, total_size, downloaded) :
          ReadChunk(got) /\ UNCHANGED <<reqVars, pageVars, dlVars, loginVars, lookupVars, runVars>>
    \/ ReadRaises /\ UNCHANGED <<reqVars, pageVars, dlVars, loginVars, lookupVars, runVars>>
    \/ \E mkdirRaises \in BOOLEAN, encRaises \in BOOLEAN :
          Finish(mkdirRaises, encRaises) /\ UNCHANGED <<reqVars, pageVars, dlVars, loginVars, lookupVars, runVars>>
    \/ AudioReturn /\ UNCHANGED <<reqVars, pageVars, dlVars, loginVars, lookupVars, runVars>>

SpecAudio == InitAudioSession /\ [][NextAudio]_vars

\* ZSpotify.start (486-488) reaches the login loop: RespotAuth.__init__
\* (45-53) has run, no request was ever made, the credential file is there
\* (accepted by the service or not) or it is not
InitLogin ==
    /\ InitPageIdle /\ DownloadsAtRest /\ AudioAtRest /\ LookupIdle /\ RunStarting
    /\ auth_session = 0
    /\ sessions = 0
    /\ auth_token = NoToken
    /\ auth_token_your_libary = NoToken
    /\ req_token = NoToken
    /\ req_token_your_libary = NoToken
    /\ rq_pc = "idle"
    /\ retry_count = 0
    /\ token_bearer = NoToken
    /\ sent = <<>>
    /\ result = NoResult
    /\ calls = 0
    /\ cred_file \in {0, 1}
    /\ cred_ok \in BOOLEAN
    /\ cred_file = 0 => ~cred_ok
    /\ force_premium \in BOOLEAN
    /\ account_type \in AccountTypes
    /\ quality = "None"
    /\ lg_pc = "silent"
    /\ lg_ev = [path |-> "none", result |-> "none", userpass |-> FALSE,
                valid |-> FALSE]

\* the login loop, and the requests of the session it ends in
NextLogin ==
    \/ \E failAt \in RefreshPoints, exc \in ExceptionKinds :
          SilentLogin(failAt, exc) /\ UNCHANGED <<pageVars, dlVars, audioVars, lookupVars, runVars>>
    \/ \E userpass \in BOOLEAN, valid \in BOOLEAN, failAt \in RefreshPoints,
          exc \in ExceptionKinds :
          PromptLogin(userpass, valid, failAt, exc)
             /\ UNCHANGED <<pageVars, dlVars, audioVars, lookupVars, runVars>>
    \/ Restart /\ UNCHANGED <<pageVars, dlVars, audioVars, lookupVars, runVars>>
    \/ lg_pc = "authenticated" /\ NextReq

SpecLogin == InitLogin /\ [][NextLogin]_vars

\* the lookups of a logged-in session, each with its request
NextLookup ==
    \/ \E kind \in Lookups :
          LookupCall(kind)
             /\ UNCHANGED <<pageVars, dlVars, audioVars, loginVars, runVars>>
    \/ RaiseTooManyRetries
          /\ UNCHANGED <<pageVars, dlVars, audioVars, loginVars, lookupVars, runVars>>
    \/ \E status \in Statuses :
          GetResponse(status)
             /\ UNCHANGED <<pageVars, dlVars, audioVars, loginVars, lookupVars, runVars>>
    \/ \E failAt \in RefreshPoints, connErr \in BOOLEAN :
          Get401(failAt, connErr)
             /\ UNCHANGED <<pageVars, dlVars, audioVars, loginVars, lookupVars, runVars>>
    \/ GetConnectionError
          /\ UNCHANGED <<pageVars, dlVars, audioVars, loginVars, lookupVars, runVars>>
    \/ \E shape \in Shapes :
          LookupShape(shape)
             /\ UNCHANGED <<pageVars, dlVars, audioVars, loginVars, runVars>>
    \/ LookupReturn
          /\ UNCHANGED <<pageVars, dlVars, audioVars, loginVars, runVars>>

SpecLookup == InitSession /\ [][NextLookup]_vars

\* main has built ZSpotify and start has logged in: the arguments select a
\* mode and name some items
InitRun ==
    /\ SessionAtRest /\ InitPageIdle /\ DownloadsAtRest /\ AudioAtRest
    /\ LoggedIn /\ LookupIdle
    /\ run_pc = "start"
    /\ run_mode \in Modes
    /\ work_left \in 1..MaxItems
    /\ exit_kind = "none"
    /\ committed = FALSE
    /\ closed = FALSE

NextRun ==
    \/ Dispatch
          /\ UNCHANGED <<reqVars, pageVars, dlVars, audioVars, loginVars, lookupVars>>
    \/ \E outcome \in ItemOutcomes :
          WorkItem(outcome)
             /\ UNCHANGED <<reqVars, pageVars, dlVars, audioVars, loginVars, lookupVars>>
    \/ RunReturns
          /\ UNCHANGED <<reqVars, pageVars, dlVars, audioVars, loginVars, lookupVars>>
    \/ Interrupt
          /\ UNCHANGED <<reqVars, pageVars, dlVars, audioVars, loginVars, lookupVars>>

SpecRun == InitRun /\ [][NextRun]_vars

Next ==
    \/ \E t \in Tracks, meta \in MetaOutcomes, dl \in DownloadOutcomes,
          tag \in TagOutcomes :
          TrackCall(t, meta, dl, tag) /\ UNCHANGED <<reqVars, pageVars, audioVars, loginVars, lookupVars, runVars>>
    \/ \E r \in Artists, listRaises \in BOOLEAN, q \in Listing(Albums) :
          ArtistCall(r, listRaises, q) /\ UNCHANGED <<reqVars, pageVars, audioVars, loginVars, lookupVars, runVars>>
    \/ \E info \in AlbumInfoOutcomes, listRaises \in BOOLEAN, q \in Listing(Tracks) :
          ArtistAlbum(info, listRaises, q) /\ UNCHANGED <<reqVars, pageVars, audioVars, loginVars, lookupVars, runVars>>
    \/ \E meta \in MetaOutcomes, dl \in DownloadOutcomes, tag \in TagOutcomes :
          LoopTrack(meta, dl, tag) /\ UNCHANGED <<reqVars, pageVars, audioVars, loginVars, lookupVars, runVars>>
    \/ AlbumEnd /\ UNCHANGED <<reqVars, pageVars, audioVars, loginVars, lookupVars, runVars>>
    \/ ArtistEnd /\ UNCHANGED <<reqVars, pageVars, audioVars, loginVars, lookupVars, runVars>>
    \/ \E kind \in {"playlist", "liked"}, infoRaises \in BOOLEAN,
          listRaises \in BOOLEAN, q \in Listing(Tracks) :
          BatchCall(kind, infoRaises, listRaises, q) /\ UNCHANGED <<reqVars, pageVars, audioVars, loginVars, lookupVars, runVars>>
    \/ BatchEnd /\ UNCHANGED <<reqVars, pageVars, audioVars, loginVars, lookupVars, runVars>>

Spec == Init /\ [][Next]_vars

-----------------------------------------------------------------------------
(* Claims about authorized_get_request, checked under SpecReq.             *)

\* the requests of the current call that ended in a 401 or a connection failure
Failed(i) == sent[i].outcome \in {"401", "conn"}

\* C1: one call sends at most 4 requests, and when the first 4 requests all
\* end in 401 or connection failure the call raises TooManyRetries (and sends
\* no 5th request).
C1_RetryBound ==
    /\ Len(sent) <= 4
    /\ (rq_pc = "done" /\ Len(sent) = 4 /\ \A i \in 1..4 : Failed(i))
          => result = TooManyRetries

\* the part of C1 the code keeps in every case: never more than 4 requests
C1_AtMostFourRequests == Len(sent) <= 4

\* C2: once a request sent with token T was answered 401 and the refresh that
\* followed gave new tokens, no later request of the call carries T.
C2_NoTokenReuseAfter401 ==
    \A i, j \in 1..Len(sent) :
        (i < j /\ sent[i].outcome = "401" /\ sent[i].refresh = "ok")
            => sent[j].token # sent[i].token

\* C3: after k < 4 consecutive failures, a request that gets a non-401
\* response is sent, and the call returns exactly that response: the call is
\* over as soon as the last request logged has a response, its result is that
\* response, and TooManyRetries is never raised before 4 requests were sent.
C3_ReturnsTheResponse ==
    /\ (Len(sent) > 0 /\ sent[Len(sent)].outcome = "response")
          => /\ rq_pc = "done"
             /\ result = Response(sent[Len(sent)].status)
    /\ result = TooManyRetries => Len(sent) = 4
    /\ (rq_pc = "run" /\ Len(sent) < 4) => ENABLED GetResponse(200)

\* C3's case: three failures, then a response on the fourth request
C3_Witness ==
    /\ rq_pc = "done"
    /\ Len(sent) = 4
    /\ \A i \in 1..3 : Failed(i)
    /\ sent[4].outcome = "response"
    /\ result = Response(sent[4].status)

-----------------------------------------------------------------------------
(* Claims about the paginated listings, checked under SpecPage.            *)

\* the items with "track": null on the first n pages of the current listing
RECURSIVE NullsUpTo(_)
NullsUpTo(n) == IF n = 0 THEN 0 ELSE pages[n].nulls + NullsUpTo(n - 1)

\* the requests of a finished listing: n full pages at offsets 0, limit, ...,
\* then one short page, and none after it
PageProtocol ==
    LET n == Len(pages) - 1
        limit == Limit(pg_kind)
    IN  /\ Len(pages) >= 1
        /\ \A i \in 1..Len(pages) : pages[i].offset = (i - 1) * limit
        /\ \A i \in 1..n : pages[i].size = limit
        /\ pages[n + 1].size < limit

\* C10: a listing answered with n full pages and then a page of k < limit
\* items issues exactly n+1 requests at offsets 0, limit, ..., n*limit and
\* returns exactly n*limit + k items.
C10_ExactItemCount ==
    (pg_pc = "done" /\ pg_kind \in Listings) =>
        /\ PageProtocol
        /\ items = (Len(pages) - 1) * Limit(pg_kind) + pages[Len(pages)].size

\* C10 as amended: the requests are as claimed, a request is issued only while
\* every page so far was full, and the list returned holds the n*limit + k
\* items less the playlist items whose track is null.
C10_ItemCountLessNullTracks ==
    /\ pg_pc = "loop" => \A i \in 1..Len(pages) :
                            /\ pages[i].size = Limit(pg_kind)
                            /\ pages[i].offset = (i - 1) * Limit(pg_kind)
    /\ pg_pc = "loop" => offset = Len(pages) * Limit(pg_kind)
    /\ (pg_pc = "done" /\ pg_kind \in Listings) =>
          /\ PageProtocol
          /\ items = (Len(pages) - 1) * Limit(pg_kind) + pages[Len(pages)].size
                     - (IF pg_kind = "playlist_songs" THEN NullsUpTo(Len(pages))
                        ELSE 0)

\* C11: get_artist_albums follows the same protocol: it ends on a short page
\* only, after a request for each full page before it, and returns the albums
\* of every page.
C11_ArtistAlbumsPaginated ==
    (pg_pc = "done" /\ pg_kind = "artist_albums") =>
        /\ PageProtocol
        /\ items = (Len(pages) - 1) * Limit(pg_kind) + pages[Len(pages)].size

\* C10's case: a playlist listing of two full pages and a short one, with an
\* item whose track is null
C10_Witness ==
    /\ pg_pc = "done"
    /\ pg_kind = "playlist_songs"
    /\ Len(pages) = 3
    /\ pages[3].size = 1
    /\ NullsUpTo(3) > 0
    /\ items < 2 * Limit(pg_kind) + 1

-----------------------------------------------------------------------------
(* Claims about the download operations, checked under Spec.               *)

\* 1 for a step that did the thing, 0 otherwise
Count(b) == IF b THEN 1 ELSE 0

\* this step is a call download_track(t) following a call download_track(t)
SecondCallInSuccession ==
    /\ ev.op = "download_track"
    /\ ev'.op = "download_track"
    /\ ev'.id = ev.id

\* across the two calls each kind of work is done at most once, and the second
\* call does none
AtMostOnceAcrossBoth ==
    /\ Count(ev.info) + Count(ev'.info) <= 1
    /\ Count(ev.stream) + Count(ev'.stream) <= 1
    /\ Count(ev.encode) + Count(ev'.encode) <= 1
    /\ ~ev'.info /\ ~ev'.stream /\ ~ev'.encode

\* C4: for every track id, two calls of download_track in succession do the
\* metadata fetch, the stream download and the encode at most once in total,
\* and the second call does no network or encode work.
C4_TwiceWorksOnce == [][SecondCallInSuccession => AtMostOnceAcrossBoth]_vars

\* C4 as amended: the same, for a first call that left the track completed in
\* the ledger.
C4_TwiceWorksOnceIfCompleted ==
    [][(SecondCallInSuccession /\ have_song_downloaded(ev.id))
          => AtMostOnceAcrossBoth]_vars

\* C4's case: a call that found the track completed by an earlier call
C4_Witness ==
    /\ ev.op = "download_track"
    /\ ev.path = "skipped"
    /\ have_song_downloaded(ev.id)
    /\ pc = "idle"

\* C5: download_track, download_album and download_artist, called for an
\* entity whose ledger entry is complete, send no catalog request and open no
\* stream (and start no loop over children).
C5_NoFetchWhenComplete ==
    [][/\ (ev'.op = "download_track" /\ have_song_downloaded(ev'.id))
            => (~ev'.info /\ ~ev'.stream /\ ~ev'.encode /\ ~ev'.marked)
       /\ (ev'.op = "download_album" /\ have_album_already_downloaded(ev'.id))
            => (~ev'.info /\ ~ev'.stream /\ pc' # "tracks")
       /\ (ev'.op = "download_artist" /\ have_artist_already_downloaded(ev'.id))
            => (~ev'.info /\ ~ev'.stream /\ pc' = "idle")]_vars

\* C5's case: download_album called, inside download_artist, for an album
\* that is already marked
C5_Witness ==
    /\ ev.op = "download_album"
    /\ ev.path = "skipped"
    /\ have_album_already_downloaded(ev.id)

\* the step writes track t's ledger entry
NewlyMarked(t) == ledger_songs'[t] /\ ~ledger_songs[t]

AllSucceeded(e) ==
    /\ e.op = "download_track"
    /\ e.info /\ e.stream /\ e.encode /\ ~e.raised

C8_MarkedAfterEveryChild ==
    [][/\ \A a \in Albums :
            (ledger_albums'[a] /\ ~ledger_albums[a])
               => /\ pc = "tracks" /\ loop_kind = "album" /\ album_id = a
                  /\ Len(songs) > 0
                  /\ \A i \in 1..Len(songs) : songs[i] \in tried_songs
       /\ \A r \in Artists :
            (ledger_artists'[r] /\ ~ledger_artists[r])
               => /\ pc = "artist" /\ artist_id = r
                  /\ Len(albums_ids) > 0
                  /\ \A i \in 1..Len(albums_ids) : albums_ids[i] \in tried_albums]_vars

\* C8's case: an artist marked after an album of two tracks was marked
C8_Witness ==
    /\ ev.op = "artist_end"
    /\ have_artist_already_downloaded(ev.id)
    /\ \E a \in Albums : have_album_already_downloaded(a)

\* C9: a failure on one child never stops a traversal: no exception leaves a
\* loop with children still to visit.
C9_FailureNeverStopsTraversal == ev.raised => ev.left = 0

-----------------------------------------------------------------------------
(* Claims about the refresh and the connection retry, checked under SpecReq. *)

\* this step sends a request
SendsRequest == Len(sent') = Len(sent) + 1

\* the session and the tokens RespotAuth and RespotRequest store
StoredTokens == <<auth_session, auth_token, auth_token_your_libary, sessions,
                  req_token, req_token_your_libary>>

\* C19: each 401 triggers exactly one refresh_token before the next request,
\* and after a refresh that returned, self.token and self.token_your_libary of
\* the client are the two tokens it returned (those of the one new session);
\* no other answer triggers a refresh.
C19_OneRefreshPer401 ==
    [][SendsRequest =>
         LET r == sent'[Len(sent')]
         IN  /\ r.outcome = "401" =>
                   /\ r.refresh # "no"
                   /\ sessions' \in {sessions, sessions + 1}
                   /\ r.refresh = "ok" =>
                         /\ sessions' = sessions + 1
                         /\ req_token' = MintToken(sessions', "user-read-email")
                         /\ req_token_your_libary' =
                                MintToken(sessions', "user-library-read")
                         /\ req_token' = auth_token'
                         /\ req_token_your_libary' = auth_token_your_libary'
                         /\ rq_pc' = "run"
             /\ r.outcome # "401" => UNCHANGED StoredTokens]_vars

\* C19's case: two 401s in one call, each followed by its own refresh
C19_Witness ==
    /\ rq_pc = "run"
    /\ Len(sent) = 2
    /\ \A i \in 1..2 : sent[i].outcome = "401" /\ sent[i].refresh = "ok"
    /\ sessions = 3
    /\ req_token = MintToken(3, "user-read-email")
    /\ req_token_your_libary = MintToken(3, "user-library-read")

\* C20: a connection failure of the request causes a retry with
\* retry_count + 1 and the same bearer token (the next request carries it) and
\* leaves the session and both stored tokens as they were.
C20_ConnectionRetry ==
    [][SendsRequest =>
         LET r == sent'[Len(sent')]
         IN  /\ r.outcome = "conn" =>
                   /\ retry_count' = retry_count + 1
                   /\ rq_pc' = "run"
                   /\ token_bearer' = r.token
                   /\ UNCHANGED StoredTokens
             /\ (Len(sent) > 0 /\ sent[Len(sent)].outcome = "conn")
                   => r.token = sent[Len(sent)].token]_vars

\* C20's case: a connection failure after a refresh stored new tokens, and
\* the request that follows it
C20_Witness ==
    /\ Len(sent) = 3
    /\ sent[1].outcome = "401" /\ sent[1].refresh = "ok"
    /\ sent[2].outcome = "conn"
    /\ sent[3].token = sent[2].token
    /\ sent[2].token # req_token

-----------------------------------------------------------------------------
(* Claims about download_audio, checked under SpecAudio.                   *)

\* the read loop is over (by its break or its condition, not by an exception)
LoopEnded == da_pc = "post" \/ (da_pc = "done" /\ failure \in {"none", "dir", "encode"})

\* every read so far returned exactly as many bytes as it asked for
ExactStream == \A i \in 1..Len(reads) : reads[i].got = reads[i].req

\* the sizes the reads asked for, in order
ReadSizes == [i \in 1..Len(reads) |-> reads[i].req]

\* C12: with total 120000 and a stream that returns exactly what is asked,
\* the reads are of 50000, 50000 and 20000 bytes, and downloaded = total when
\* the loop ends.
C12_ChunkAccounting ==
    (LoopEnded /\ total_size = 120000 /\ ExactStream) =>
        /\ ReadSizes = <<50000, 50000, 20000>>
        /\ downloaded = total_size

\* the first 31 reads of the call returned no byte
FirstReadsEmpty ==
    /\ Len(reads) > RETRY_DOWNLOAD
    /\ \A i \in 1..(RETRY_DOWNLOAD + 1) : reads[i].got = 0

C14_NoSuccessOnPartial ==
    (LoopEnded /\ downloaded < total_size) =>
        /\ encoded <= 0
        /\ da_result # "True"

\* C15: the loop is abandoned short of total only when the last 31 reads were
\* all empty (more than 30 empty reads in a row).
C15_ConsecutiveEmptyReads ==
    (LoopEnded /\ downloaded < total_size) =>
        /\ Len(reads) > RETRY_DOWNLOAD
        /\ \A i \in (Len(reads) - RETRY_DOWNLOAD)..Len(reads) : reads[i].got = 0

\* C16: every read asks for at most min(50000, total - downloaded) bytes.
C16_ReadNeverOvershoots ==
    \A i \in 1..Len(reads) :
        /\ reads[i].req <= CHUNK_SIZE
        /\ reads[i].req <= total_size - reads[i].at

\* C17: download_audio never propagates an exception: it returns False when
\* the stream opening, a read, the directory or the encoder fails, and True
\* only when the stream opened, no read raised, the directory was there and
\* the encoder was invoked and returned.
C17_NoExceptionEscapes ==
    /\ da_pc # "done" => da_result = NotReturned
    /\ da_pc = "done" =>
          /\ da_result \in {"True", "False"}
          /\ failure # "none" <=> da_result = "False"
          /\ da_result = "True" =>
                /\ \A i \in 1..Len(reads) : reads[i].got >= 0
                /\ dir_exists
                /\ encoded >= 0
                /\ slept

\* C17's case: the encoder raised after a drained stream
C17_Witness ==
    /\ da_pc = "done"
    /\ failure = "encode"
    /\ da_result = "False"
    /\ downloaded = total_size /\ total_size > 0

\* C18: with make_dirs false and no destination directory, download_audio
\* returns False, the encoder is not invoked, no directory is created and
\* there is no sleep; with make_dirs true the directory exists when the
\* encoder is invoked.
C18_MissingDirectory ==
    [][da_pc = "post" =>
         /\ (~make_dirs /\ ~dir_exists) =>
               /\ da_result' = "False"
               /\ encoded' = -1
               /\ ~dir_exists'
               /\ ~slept'
         /\ encoded' >= 0 => dir_exists']_vars

\* C18's case: the loop was left, make_dirs is false and the directory missing
C18_Witness ==
    /\ da_pc = "done"
    /\ failure = "dir"
    /\ ~make_dirs
    /\ ~dir_exists
    /\ Len(reads) > 0

-----------------------------------------------------------------------------
(* Claims about how authorized_get_request ends and what refresh_token     *)
(* leaves behind, checked under SpecReq.                                   *)

\* C21: authorized_get_request ends by returning a response or by raising
\* TooManyRetries, and in no other way: no failure of the refresh that a 401
\* triggers reaches the caller.
C21_ResponseOrTooManyRetries ==
    rq_pc = "done" => result.kind \in {"response", "TooManyRetries"}

\* C24: the two tokens RespotAuth holds come from the same refresh (the same
\* session): refresh_token replaces both or neither.
C24_TokensFromSameRefresh == auth_token.sess = auth_token_your_libary.sess

\* C22: when the credential file exists and the silent login with it has
\* reported False, the login that follows with a valid user name and password
\* authenticates interactively (the user name and password path is taken).
C22_FallbackIsInteractive ==
    [][(/\ lg_pc = "prompt"
        /\ cred_file > 0
        /\ lg_ev.path = "stored"
        /\ lg_ev.result = "False"
        /\ lg_ev'.valid) => lg_ev'.path = "user_pass"]_vars

\* the session is authenticated (ZSpotify.login has returned)
Authenticated == lg_pc = "authenticated"

\* C23: after a successful login the quality is VERY_HIGH (the higher tier)
\* exactly when the account is premium or force_premium is set and HIGH (the
\* standard tier) otherwise, and no step of the authenticated session, a
\* refresh_token started by a 401 included, changes it.
C23_QualityTier ==
    /\ [](Authenticated =>
            /\ quality \in {"VERY_HIGH", "HIGH"}
            /\ quality = "VERY_HIGH" <=> (account_type = "premium" \/ force_premium))
    /\ [][(Authenticated /\ lg_pc' = "authenticated") => quality' = quality]_vars

\* a free account with force_premium, after a 401 whose refresh_token succeeded
C23_Witness ==
    /\ Authenticated
    /\ account_type = "free"
    /\ force_premium
    /\ quality = "VERY_HIGH"
    /\ \E i \in 1..Len(sent) : sent[i].outcome = "401" /\ sent[i].refresh = "ok"

C25_LookupNeverRaises ==
    /\ lk_pc = "done" /\ result = TooManyRetries => lk_result = "not_found"
    /\ lk_pc = "done" /\ lk_kind \in {"track", "artist"} => lk_result # "raised"

\* C27: a run that ends before the requested work has been traversed was
\* ended by a user interrupt, and then the ledger is committed and closed.
C27_OnlyInterruptEndsEarly ==
    (run_pc = "exited" /\ work_left > 0)
        => (exit_kind = "interrupt" /\ committed /\ closed)

\* how many reads of this call returned (a read that raises is the last one)
Returned == Len(reads) - (IF failure = "read" THEN 1 ELSE 0)

\* C26: set_progress_bar gets a snapshot after every read that returned, with
\* the stream's total and the downloaded value after that read; the
\* downloaded values never decrease; when the loop has ended, the terminal
\* marker (False) follows the last snapshot, once, and not before.
C26_ProgressSnapshots ==
    (da_pc # "idle" /\ failure # "open") =>
        /\ Len(progress) =
              Returned + 1 + (IF da_pc = "done" /\ LoopEnded THEN 1 ELSE 0)
        /\ \A i \in 1..Len(progress) :
              IF i = 1 THEN progress[i] = Snapshot(total_size, 0)
              ELSE IF i <= Returned + 1
              THEN /\ progress[i] =
                         Snapshot(total_size, reads[i - 1].at + reads[i - 1].got)
                   /\ progress[i - 1].downloaded <= progress[i].downloaded
              ELSE progress[i] = NoTransfer

\* a call whose stream had an empty read among full ones has returned True
C26_Witness ==
    /\ da_pc = "done"
    /\ da_result = "True"
    /\ total_size = 120000
    /\ Len(reads) > 4
    /\ reads[2].got = 0
    /\ progress[Len(progress)] = NoTransfer
    /\ progress[Len(progress) - 1].downloaded = 120000

\* C28: the stream is opened as an episode only after the opening as a track
\* failed with a status-code rejection; after any other error of the track
\* opening there is no episode attempt and download_audio returns False.
C28_EpisodeOnlyAfterStatusCode ==
    /\ \A i \in 1..Len(opens) :
          opens[i].as = "episode" =>
              /\ i = 2
              /\ opens[1].as = "track"
              /\ opens[1].outcome = "status_code"
    /\ (Len(opens) > 0 /\ opens[1].outcome = "other") =>
          /\ Len(opens) = 1
          /\ da_pc = "done"
          /\ da_result = "False"

\* the track opening was rejected with a status code, the episode opening
\* succeeded and the read loop is entered
C28_Witness ==
    /\ Len(opens) = 2
    /\ opens[1].outcome = "status_code"
    /\ opens[2] = [as |-> "episode", outcome |-> "ok"]
    /\ da_pc = "reading"

\* C30: when every read returns between 0 and the requested number of bytes,
\* each iteration adds to downloaded or to failCount, downloaded stays within
\* total and failCount within 31, so the loop makes at most total + 31 + 1
\* reads.
C30_ReadLoopBound ==
    (da_pc # "idle" /\ Returned = Len(reads)) =>
        /\ Len(reads) <= downloaded + failCount
        /\ downloaded <= total_size
        /\ failCount <= RETRY_DOWNLOAD + 1
        /\ da_pc = "reading" => failCount <= RETRY_DOWNLOAD
        /\ Len(reads) <= total_size + RETRY_DOWNLOAD + 1 + 1

\* a stream of SmallTotal bytes read one byte at a time, with 31 empty reads
C30_Witness ==
    /\ total_size = SmallTotal
    /\ da_pc = "post"
    /\ Len(reads) = SmallTotal + RETRY_DOWNLOAD + 1
    /\ \A i \in 1..Len(reads) : reads[i].got \in {0, 1}

-----------------------------------------------------------------------------
(* Further claims about the download operations, checked under Spec.       *)

\* the step is an iteration of download_album's loop over its songs
AlbumLoopStep(a) ==
    /\ pc = "tracks"
    /\ loop_kind = "album"
    /\ album_id = a
    /\ ev'.op = "download_track"

\* C31: an album can be marked fully downloaded while a track of it is not in
\* the ledger; once an album is marked it stays marked, download_album for it
\* takes the skip branch, and no iteration of download_album's loop (no
\* download_track for one of its tracks) runs for it again.
C31_MarkedAlbumNeverRevisited ==
    /\ [](unfinished # {} => (ev.op = "album_end" /\ ledger_albums[ev.id]))
    /\ [][\A a \in Albums :
            ledger_albums[a] =>
                /\ ledger_albums'[a]
                /\ ~AlbumLoopStep(a)
                /\ (ev'.op = "download_album" /\ ev'.id = a) => ev'.path = "skipped"]_vars

\* download_album has just marked the album although download_track was
\* called for each of its two tracks and put neither in the ledger
C31_Witness ==
    /\ ev.op = "album_end"
    /\ ledger_albums[ev.id]
    /\ Cardinality(unfinished) = 2
    /\ \A t \in unfinished : ~ledger_songs[t]

-----------------------------------------------------------------------------
(* Further claims about download_audio, checked under SpecAudio.           *)

\* the stream delivers its bytes: no read raised, and every read made while
\* bytes were left returned some
DeliversAll ==
    \A i \in 1..Len(reads) :
        /\ reads[i].got >= 0
        /\ reads[i].at < total_size => reads[i].got > 0

-----------------------------------------------------------------------------
(* Further claims about the login and the requests.                        *)

\* C33: after a successful login with user name and password the
\* RespotRequest holds a minted general-scope and a minted library-scope
\* token, and no request of the session carries an unset token.
C33_TokensMintedAfterInteractiveLogin ==
    (Authenticated /\ lg_ev.path = "user_pass" /\ lg_ev.result = "True") =>
        /\ req_token # NoToken
        /\ req_token_your_libary # NoToken
        /\ \A i \in 1..Len(sent) : sent[i].token # NoToken

\* C34: a response whose status is not 401, an error status included, ends
\* the call at once with that response as its result: the step changes
\* neither retry_count nor the session or a stored token and refreshes
\* nothing, and no request follows it.
C34_Non401ReturnedAtOnce ==
    /\ [][(SendsRequest /\ sent'[Len(sent')].outcome = "response") =>
            /\ rq_pc' = "done"
            /\ result' = Response(sent'[Len(sent')].status)
            /\ sent'[Len(sent')].refresh = "no"
            /\ retry_count' = retry_count
            /\ StoredTokens' = StoredTokens]_vars
    /\ [][rq_pc = "done" => ~SendsRequest]_vars

\* the first request is answered 503 and the call has returned that response
C34_Witness ==
    /\ rq_pc = "done"
    /\ Len(sent) = 1
    /\ sent[1].status = 503
    /\ result = Response(503)
    /\ retry_count = 0

\* download_track returned at 147-149 (no metadata) or 151-153 (not playable)
SkippedUnavailable(e) ==
    /\ e.op = "download_track"
    /\ e.path \in {"no_info", "not_playable"}

\* C35: a download_track that skips its track because get_track_info gave
\* nothing or the track is not playable has asked the catalog, opens no
\* stream, invokes no encoder and leaves ledger and files as they were; every
\* download_track for a track that is not in the ledger asks the catalog, so
\* a later call for the skipped track does.
C35_SkipLeavesLedgerUnchanged ==
    [][/\ SkippedUnavailable(ev') =>
            /\ ev'.info /\ ~ev'.stream /\ ~ev'.encode /\ ~ev'.marked
            /\ ledger_songs' = ledger_songs
            /\ ledger_albums' = ledger_albums
            /\ ledger_artists' = ledger_artists
            /\ files' = files
       /\ (ev'.op = "download_track" /\ ~have_song_downloaded(ev'.id)) => ev'.info
       /\ (SkippedUnavailable(ev) /\ ev'.op = "download_track" /\ ev'.id = ev.id)
            => ev'.info]_vars

\* a track skipped as not playable although its file is there and
\* not_skip_existing is set: it is still not in the ledger
C35_Witness ==
    /\ SkippedUnavailable(ev)
    /\ ev.path = "not_playable"
    /\ ~have_song_downloaded(ev.id)
    /\ not_skip_existing
    /\ files[ev.id]
    /\ pc = "idle"


=============================================================================
